---- MODULE Spec2Model ----
(***************************************************************************)
(* Model of hashmap-rs (src/src/lib.rs): a separate-chaining hash table    *)
(* with lazy allocation, doubling growth, swap-based removal and a         *)
(* bucket-order iterator.                                                  *)
(***************************************************************************)
EXTENDS Integers, Sequences, FiniteSets, TLC

\* ---------------------------------------------------------------- bounds
NumKeys == 2
NumVals == 2
MaxHash == 4

Keys == 1..NumKeys
Vals == 1..NumVals
\* the part of the u64 range of Hasher::finish the model draws hashes from
HashVals == 0..(MaxHash - 1)

\* ------------------------------------------------------------- constants
INITIAL_N_BUCKETS == 1

\* ------------------------------------------------- results of operations
\* Option<V> / bool results are one-element sequences; a panic (the
\* remainder by zero of bucket_idx) is a result of a different shape.
None == << >>
Some(v) == << v >>
Panic == << 0, 0 >>

VARIABLES
    hash,       \* DefaultHasher: the hash of each key, fixed for the run
    buckets,    \* HashMap.buckets : Vec<Vec<(K, V)>>
    items,      \* HashMap.items
    panicked,   \* the thread has panicked (remainder by zero)
    last,       \* the most recent call on the map and what it returned
    ref,        \* reference key-to-value map run over the same operations
    distinct,   \* every call so far was an insert of a key not inserted before
    iter,       \* HashIter: [live, current_bucket, current_item, done]
    yielded     \* the pairs the live iterator has yielded so far

vars == << hash, buckets, items, panicked, last, ref, distinct, iter, yielded >>

\* ------------------------------------------------------- pure operations

\* HashMap::len
len == items

\* mutant of is_empty: the bucket store is tested instead of the item count
is_empty_no_buckets == Len(buckets) = 0

\* HashMap::is_empty
is_empty == items = 0

\* the remainder of the hash by the bucket count n (n > 0)
IdxIn(key, n) == hash[key] % n

\* HashMap::bucket_idx: panics when there are no buckets
BucketIdxPanics == Len(buckets) = 0
bucket_idx(key) == IdxIn(key, Len(buckets))

\* mutant of Position: only the first entry of the bucket is compared
Position_first_only(bucket, key) ==
    IF Len(bucket) > 0 /\ bucket[1][1] = key THEN 1 ELSE 0

\* position (1-based) of the first entry of bucket with the given key, 0 if none
Position(bucket, key) ==
    IF \E i \in 1..Len(bucket) : bucket[i][1] = key
    THEN CHOOSE i \in 1..Len(bucket) :
            /\ bucket[i][1] = key
            /\ \A j \in 1..(i - 1) : bucket[j][1] # key
    ELSE 0

\* HashMap::get
get(key) ==
    IF BucketIdxPanics THEN Panic
    ELSE LET bucket == buckets[bucket_idx(key) + 1]
             i == Position(bucket, key)
         IN IF i = 0 THEN None ELSE Some(bucket[i][2])

\* mutant of contains_key: only the first entry of the bucket is compared
contains_key_first(key) ==
    IF BucketIdxPanics THEN Panic
    ELSE LET bucket == buckets[bucket_idx(key) + 1]
         IN << Len(bucket) > 0 /\ bucket[1][1] = key >>

\* HashMap::contains_key
contains_key(key) ==
    IF BucketIdxPanics THEN Panic
    ELSE LET bucket == buckets[bucket_idx(key) + 1]
         IN << \E i \in 1..Len(bucket) : bucket[i][1] = key >>

\* all entries of the buckets, bucket by bucket (flat_map of the drains)
RECURSIVE Flatten(_)
Flatten(bs) ==
    IF Len(bs) = 0 THEN << >> ELSE Head(bs) \o Flatten(Tail(bs))

\* mutant of Rehash: the index is computed under the old bucket count
RECURSIVE RehashOldCount(_, _)
RehashOldCount(nb, entries) ==
    IF Len(entries) = 0 THEN nb
    ELSE LET e == Head(entries)
             old == IF Len(nb) = 1 THEN 1 ELSE Len(nb) \div 2
             idx == IdxIn(e[1], old)
         IN RehashOldCount([nb EXCEPT ![idx + 1] = Append(@, e)], Tail(entries))

\* push every entry into the bucket its hash selects among Len(nb) buckets
RECURSIVE Rehash(_, _)
Rehash(nb, entries) ==
    IF Len(entries) = 0 THEN nb
    ELSE LET e == Head(entries)
             idx == IdxIn(e[1], Len(nb))
         IN Rehash([nb EXCEPT ![idx + 1] = Append(@, e)], Tail(entries))

\* mutant of TargetSize: the store grows by a fixed step instead of doubling
TargetSize_add(bs) == IF Len(bs) = 0 THEN INITIAL_N_BUCKETS ELSE Len(bs) + 2

\* HashMap::resize: the new bucket store
TargetSize(bs) == IF Len(bs) = 0 THEN INITIAL_N_BUCKETS ELSE 2 * Len(bs)
RECURSIVE EmptyBuckets(_)
EmptyBuckets(n) ==
    IF n = 0 THEN << >> ELSE Append(EmptyBuckets(n - 1), << >>)
\* mutant of resize: the store is extended and no entry is moved
resize_extend(bs) == bs \o EmptyBuckets(TargetSize(bs) - Len(bs))

resize(bs) ==
    Rehash(EmptyBuckets(TargetSize(bs)), Flatten(bs))

\* mutant of NeedsResize: the threshold is three items per bucket
NeedsResize_no_quarter == Len(buckets) = 0 \/ items > 3 * Len(buckets)

\* mutant of NeedsResize: the table grows once it is three quarters full
NeedsResize_at_threshold ==
    Len(buckets) = 0 \/ items >= (3 * Len(buckets)) \div 4

\* the growth check at the head of insert
NeedsResize == Len(buckets) = 0 \/ items > (3 * Len(buckets)) \div 4

\* mutant of mem_replace: the new value is dropped, the old one stays
mem_replace_keep(bucket, i, value) == bucket

\* mem::replace on the value of entry i of the bucket: the bucket it leaves
mem_replace(bucket, i, value) ==
    [bucket EXCEPT ![i] = << bucket[i][1], value >>]

\* mutant of insert: the item count grows on an overwrite too
insert_count_always(key, value) ==
    LET b1 == IF NeedsResize THEN resize(buckets) ELSE buckets
        idx == IdxIn(key, Len(b1))
        i == Position(b1[idx + 1], key)
    IN IF i # 0
       THEN [buckets |-> [b1 EXCEPT ![idx + 1] = mem_replace(@, i, value)],
             items |-> items + 1,
             ret |-> Some(b1[idx + 1][i][2])]
       ELSE [buckets |-> [b1 EXCEPT ![idx + 1] = Append(@, << key, value >>)],
             items |-> items + 1,
             ret |-> None]

\* HashMap::insert: the table it leaves and the value it returns
insert(key, value) ==
    LET b1 == IF NeedsResize THEN resize(buckets) ELSE buckets
        idx == IdxIn(key, Len(b1))
        i == Position(b1[idx + 1], key)
    IN IF i # 0
       THEN [buckets |-> [b1 EXCEPT ![idx + 1] = mem_replace(@, i, value)],
             items |-> items,
             ret |-> Some(b1[idx + 1][i][2])]
       ELSE [buckets |-> [b1 EXCEPT ![idx + 1] = Append(@, << key, value >>)],
             items |-> items + 1,
             ret |-> None]

\* mutant of swap_remove: the last entry is popped whatever i is
swap_remove_pop(bucket, i) == SubSeq(bucket, 1, Len(bucket) - 1)

\* mutant of swap_remove: the last entry is copied into slot i, no slot dropped
swap_remove_no_pop(bucket, i) == [bucket EXCEPT ![i] = bucket[Len(bucket)]]

\* mutant of swap_remove: the index is ignored and the first slot is taken
swap_remove_first(bucket, i) ==
    LET n == Len(bucket)
    IN SubSeq([bucket EXCEPT ![1] = bucket[n]], 1, n - 1)

\* Vec::swap_remove(i), i 1-based
swap_remove(bucket, i) ==
    LET n == Len(bucket)
    IN SubSeq([bucket EXCEPT ![i] = bucket[n]], 1, n - 1)

\* mutant of remove: the item count is left as it was
remove_keep_count(key) ==
    IF BucketIdxPanics
    THEN [buckets |-> buckets, items |-> items, ret |-> Panic]
    ELSE LET idx == bucket_idx(key)
             i == Position(buckets[idx + 1], key)
         IN IF i = 0
            THEN [buckets |-> buckets, items |-> items, ret |-> None]
            ELSE [buckets |-> [buckets EXCEPT ![idx + 1] = swap_remove(@, i)],
                  items |-> items,
                  ret |-> Some(buckets[idx + 1][i][2])]

\* mutant of remove: the item count is taken down before the key is looked up
remove_count_first(key) ==
    IF BucketIdxPanics
    THEN [buckets |-> buckets, items |-> items, ret |-> Panic]
    ELSE LET idx == bucket_idx(key)
             i == Position(buckets[idx + 1], key)
         IN IF i = 0
            THEN [buckets |-> buckets, items |-> items - 1, ret |-> None]
            ELSE [buckets |-> [buckets EXCEPT ![idx + 1] = swap_remove(@, i)],
                  items |-> items - 1,
                  ret |-> Some(buckets[idx + 1][i][2])]

\* mutant of remove: the bucket store is released with the last entry
remove_release(key) ==
    IF BucketIdxPanics
    THEN [buckets |-> buckets, items |-> items, ret |-> Panic]
    ELSE LET idx == bucket_idx(key)
             i == Position(buckets[idx + 1], key)
         IN IF i = 0
            THEN [buckets |-> buckets, items |-> items, ret |-> None]
            ELSE [buckets |-> IF items = 1 THEN << >>
                              ELSE [buckets EXCEPT
                                      ![idx + 1] = swap_remove(@, i)],
                  items |-> items - 1,
                  ret |-> Some(buckets[idx + 1][i][2])]

\* HashMap::remove: the table it leaves and the value it returns
remove(key) ==
    IF BucketIdxPanics
    THEN [buckets |-> buckets, items |-> items, ret |-> Panic]
    ELSE LET idx == bucket_idx(key)
             i == Position(buckets[idx + 1], key)
         IN IF i = 0
            THEN [buckets |-> buckets, items |-> items, ret |-> None]
            ELSE [buckets |-> [buckets EXCEPT ![idx + 1] = swap_remove(@, i)],
                  items |-> items - 1,
                  ret |-> Some(buckets[idx + 1][i][2])]

\* mutant of NextFrom: a bucket is walked from its last entry to its first
RECURSIVE NextFrom_backwards(_, _)
NextFrom_backwards(cb, ci) ==
    IF cb < Len(buckets)
    THEN IF ci < Len(buckets[cb + 1])
         THEN [cb |-> cb, ci |-> ci + 1,
               out |-> Some(buckets[cb + 1][Len(buckets[cb + 1]) - ci])]
         ELSE NextFrom_backwards(cb + 1, 0)
    ELSE [cb |-> cb, ci |-> ci, out |-> None]

\* mutant of NextFrom: the cursor goes back to the first bucket at the end
RECURSIVE NextFrom_restart(_, _)
NextFrom_restart(cb, ci) ==
    IF cb < Len(buckets)
    THEN IF ci < Len(buckets[cb + 1])
         THEN [cb |-> cb, ci |-> ci + 1, out |-> Some(buckets[cb + 1][ci + 1])]
         ELSE NextFrom_restart(cb + 1, 0)
    ELSE [cb |-> 0, ci |-> 0, out |-> None]

\* one call of HashIter::next from cursor (cb, ci): the cursor it leaves and
\* what it returns
RECURSIVE NextFrom(_, _)
NextFrom(cb, ci) ==
    IF cb < Len(buckets)
    THEN IF ci < Len(buckets[cb + 1])
         THEN [cb |-> cb, ci |-> ci + 1, out |-> Some(buckets[cb + 1][ci + 1])]
         ELSE NextFrom(cb + 1, 0)
    ELSE [cb |-> cb, ci |-> ci, out |-> None]

\* a fresh iterator run to exhaustion: the sequence of pairs it yields
RECURSIVE Drain(_, _)
Drain(cb, ci) ==
    LET r == NextFrom(cb, ci)
    IN IF Len(r.out) = 0 THEN << >>
       ELSE r.out \o Drain(r.cb, r.ci)
Collect == Drain(0, 0)

\* ------------------------------------------------------------------ state
\* a call on the map: the operation, its arguments, its result, len() and the
\* bucket store before it, and for insert and remove whether the call before
\* it was a remove that found the same key
Call(op, key, val, ret) ==
    [op |-> op, key |-> key, val |-> val, ret |-> ret, len0 |-> items,
     buckets0 |-> buckets,
     after_remove |-> /\ op \in {"insert", "remove"}
                      /\ last.op = "remove"
                      /\ last.key = key
                      /\ Len(last.ret) = 1]

NoCall == [op |-> "new", key |-> 0, val |-> 0, ret |-> None, len0 |-> 0,
           buckets0 |-> << >>, after_remove |-> FALSE]
NoIter == [live |-> FALSE, current_bucket |-> 0, current_item |-> 0,
           done |-> FALSE]

\* HashMap::new; the hash function is any function of the key
Init ==
    /\ hash \in [Keys -> HashVals]
    /\ buckets = << >>
    /\ items = 0
    /\ panicked = FALSE
    /\ last = NoCall
    /\ ref = [k \in Keys |-> None]
    /\ distinct = TRUE
    /\ iter = NoIter
    /\ yielded = << >>

\* HashMap::insert; a mutable borrow ends the life of any iterator
Insert(key, value) ==
    /\ ~panicked
    /\ LET r == insert(key, value)
       IN /\ buckets' = r.buckets
          /\ items' = r.items
          /\ last' = Call("insert", key, value, r.ret)
    /\ ref' = [ref EXCEPT ![key] = Some(value)]
    /\ distinct' = (distinct /\ ref[key] = None)
    /\ iter' = NoIter
    /\ yielded' = << >>
    /\ UNCHANGED << hash, panicked >>

\* HashMap::remove
Remove(key) ==
    /\ ~panicked
    /\ LET r == remove(key)
       IN /\ buckets' = r.buckets
          /\ items' = r.items
          /\ last' = Call("remove", key, 0, r.ret)
          /\ panicked' = (r.ret = Panic)
    /\ ref' = [ref EXCEPT ![key] = None]
    /\ distinct' = FALSE
    /\ iter' = NoIter
    /\ yielded' = << >>
    /\ UNCHANGED hash

\* HashMap::get
Get(key) ==
    /\ ~panicked
    /\ last' = Call("get", key, 0, get(key))
    /\ panicked' = BucketIdxPanics
    /\ distinct' = FALSE
    /\ UNCHANGED << hash, buckets, items, ref, iter, yielded >>

\* HashMap::contains_key
ContainsKey(key) ==
    /\ ~panicked
    /\ last' = Call("contains_key", key, 0, contains_key(key))
    /\ panicked' = BucketIdxPanics
    /\ distinct' = FALSE
    /\ UNCHANGED << hash, buckets, items, ref, iter, yielded >>

\* HashMap::len
LenCall ==
    /\ ~panicked
    /\ last' = Call("len", 0, 0, << len >>)
    /\ distinct' = FALSE
    /\ UNCHANGED << hash, buckets, items, panicked, ref, iter, yielded >>

\* HashMap::is_empty
IsEmptyCall ==
    /\ ~panicked
    /\ last' = Call("is_empty", 0, 0, << is_empty >>)
    /\ distinct' = FALSE
    /\ UNCHANGED << hash, buckets, items, panicked, ref, iter, yielded >>

\* IntoIterator for &HashMap / HashIter::new
IntoIter ==
    /\ ~panicked
    /\ iter' = [live |-> TRUE, current_bucket |-> 0, current_item |-> 0,
                done |-> FALSE]
    /\ yielded' = << >>
    /\ last' = Call("into_iter", 0, 0, None)
    /\ distinct' = FALSE
    /\ UNCHANGED << hash, buckets, items, panicked, ref >>

\* HashIter::next
IterNext ==
    /\ ~panicked
    /\ iter.live
    /\ LET r == NextFrom(iter.current_bucket, iter.current_item)
       IN /\ iter' = [live |-> TRUE, current_bucket |-> r.cb,
                      current_item |-> r.ci, done |-> Len(r.out) = 0]
          /\ yielded' = yielded \o r.out
    /\ UNCHANGED << hash, buckets, items, panicked, last, ref, distinct >>

\* the map used through its methods
Next ==
    \/ \E k \in Keys, v \in Vals : Insert(k, v)
    \/ \E k \in Keys : Remove(k)
    \/ \E k \in Keys : Get(k)
    \/ \E k \in Keys : ContainsKey(k)
    \/ LenCall
    \/ IsEmptyCall

Spec == Init /\ [][Next]_vars

\* the map mutated and traversed
NextIter ==
    \/ \E k \in Keys, v \in Vals : Insert(k, v)
    \/ \E k \in Keys : Remove(k)
    \/ IntoIter
    \/ IterNext

SpecIter == Init /\ [][NextIter]_vars

\* every call on the map and on its iterator
NextAll == Next \/ IntoIter \/ IterNext

SpecAll == Init /\ [][NextAll]_vars

\* ------------------------------------------------------------ properties
Found == { Some(v) : v \in Vals }

\* the pairs the reference map holds
RefPairs == { << k, ref[k][1] >> : k \in { j \in Keys : ref[j] # None } }

\* the elements of a sequence
Range(s) == { s[i] : i \in 1..Len(s) }

\* C1: on a table with zero buckets, get and remove return "not found" and
\* contains_key returns false, without failing, and the table stays as it was
C1_EmptyTableNotFound ==
    (last.op \in {"get", "remove", "contains_key"} /\ Len(buckets) = 0) =>
        /\ ~panicked
        /\ last.ret = IF last.op = "contains_key" THEN << FALSE >> ELSE None
        /\ items = 0

\* C2: after any sequence of inserts and removes on a fresh table, get(k)
\* returns what the reference map holds for k, "not found" when it holds nothing
C2_GetAgreesWithReference ==
    last.op = "get" => last.ret = ref[last.key]

\* C3: a fresh iterator run to exhaustion has yielded exactly the pairs of the
\* reference map, each once
C3_IterationIsReference ==
    (iter.live /\ iter.done) =>
        /\ Range(yielded) = RefPairs
        /\ Len(yielded) = Cardinality(RefPairs)

\* C3 witness: an exhausted iterator over a table that grew to four buckets and
\* then lost an entry
C3_Witness ==
    /\ iter.live /\ iter.done
    /\ Len(buckets) = 4
    /\ Len(yielded) = 1
    /\ C3_IterationIsReference

\* a step that is the call insert(k, v) / remove(k)
InsertStep(k, v) ==
    last'.op = "insert" /\ last'.key = k /\ last'.val = v /\ Insert(k, v)
RemoveStep(k) ==
    last'.op = "remove" /\ last'.key = k /\ Remove(k)

\* C4: while only pairwise distinct keys have been inserted into a fresh table,
\* every insert has returned "absent", len() is the number of keys inserted and
\* get returns the value inserted for each of them
C4_DistinctInsertRoundTrip ==
    distinct =>
        /\ last.op = "insert" => last.ret = None
        /\ len = Cardinality({ k \in Keys : ref[k] # None })
        /\ \A k \in Keys : ref[k] # None => get(k) = ref[k]

\* C4 witness: two distinct keys inserted into a fresh table
C4_Witness == distinct /\ last.op = "insert" /\ len = 2

\* C5: insert(k, v2) on a key mapped to v1 returns v1, leaves len() and the
\* value of every other key unchanged, and get(k) then returns v2
C5_Overwrite ==
    [][\A k \in Keys, v2 \in Vals :
          (InsertStep(k, v2) /\ get(k) \in Found) =>
              /\ last'.ret = get(k)
              /\ len' = len
              /\ \A j \in Keys \ {k} : get(j)' = get(j)
              /\ get(k)' = Some(v2)]_vars

\* C5 witness: an insert has replaced a value by a different one while the
\* other key was in the table
C5_Witness ==
    /\ last.op = "insert"
    /\ last.ret \in Found
    /\ last.ret # Some(last.val)
    /\ get(last.key) = Some(last.val)
    /\ len = 2

\* C6: remove(k) on a key mapped to v returns v, takes one off len() and makes
\* get(k) "not found"; inserting k right after returns "absent" and brings
\* len() back to what it was before the removal
C6_RemoveReinsert ==
    [][\A k \in Keys :
          /\ (RemoveStep(k) /\ get(k) \in Found) =>
                /\ last'.ret = get(k)
                /\ len' = len - 1
                /\ get(k)' = None
          /\ \A v \in Vals :
                (/\ InsertStep(k, v)
                 /\ last.op = "remove" /\ last.key = k /\ last.ret \in Found) =>
                    /\ last'.ret = None
                    /\ len' = last.len0
                    /\ get(k)' = Some(v)]_vars

\* C6 witness: a key was removed and inserted again by the next call
C6_Witness ==
    /\ last.op = "insert"
    /\ last.after_remove
    /\ last.ret = None
    /\ len = 2

\* C7: of two consecutive remove(k) on a key that is present, the first
\* returns its value, the second "not found", and len() ends one less than
\* before the first
C7_RemoveTwice ==
    [][\A k \in Keys :
          /\ (RemoveStep(k) /\ get(k) \in Found) => last'.ret = get(k)
          /\ (/\ RemoveStep(k)
              /\ last.op = "remove" /\ last.key = k /\ last.ret \in Found) =>
                 /\ last'.ret = None
                 /\ len' = last.len0 - 1]_vars

\* C7 witness: the second of two consecutive removes of a key that was present
\* has returned, with the other key still in the table
C7_Witness ==
    /\ last.op = "remove"
    /\ last.after_remove
    /\ last.ret = None
    /\ len = 1

\* C8: contains_key(k) returns true exactly when get(k) returns a value and
\* false exactly when get(k) returns "not found"
C8_ContainsIffGet ==
    \A k \in Keys :
        /\ contains_key(k) = << TRUE >> <=> get(k) \in Found
        /\ contains_key(k) = << FALSE >> <=> get(k) = None

\* C8 witness: one key is in the table and the other is not
C8_Witness ==
    /\ \E k \in Keys : contains_key(k) = << TRUE >>
    /\ \E k \in Keys : contains_key(k) = << FALSE >>

\* C9: is_empty() is true exactly when len() = 0, which holds exactly when
\* iteration yields no pair; all three hold when the reference map is empty
C9_EmptyEquivalences ==
    /\ is_empty <=> len = 0
    /\ len = 0 <=> Len(Collect) = 0
    /\ (iter.live /\ iter.done) => (Len(yielded) = 0 <=> len = 0)
    /\ (\A k \in Keys : ref[k] = None) =>
          is_empty /\ len = 0 /\ Len(Collect) = 0

\* C9 witness: every inserted key has been removed again and an iterator has
\* run to exhaustion without a pair
C9_Witness ==
    /\ Len(buckets) > 1
    /\ is_empty
    /\ iter.live /\ iter.done
    /\ Len(yielded) = 0

\* the sum of the lengths of the buckets
RECURSIVE SumLen(_)
SumLen(bs) == IF Len(bs) = 0 THEN 0 ELSE Len(Head(bs)) + SumLen(Tail(bs))

\* C10: after every completed operation the item count is the sum of the
\* lengths of the buckets
C10_ItemsIsSumOfBuckets == items = SumLen(buckets)

\* C10 witness: a table that grew to four buckets, had an overwrite and a
\* removal, and still holds an entry
C10_Witness ==
    /\ Len(buckets) = 4
    /\ last.op = "remove" /\ last.ret \in Found
    /\ items = 1

\* the bucket index and position at which the table holds the pairs
Held ==
    UNION { { << b, p >> : p \in 1..Len(buckets[b]) } : b \in 1..Len(buckets) }

\* C11: every entry stored in bucket i has a key whose index under the current
\* bucket count is i, also right after an insert that resized
C11_EntriesInTheirBucket ==
    \A s \in Held : IdxIn(buckets[s[1]][s[2]][1], Len(buckets)) = s[1] - 1

\* C11 witness: an insert has just resized, and an entry sits in a bucket other
\* than the one its hash selected under the old count
C11_Witness ==
    /\ last.op = "insert"
    /\ Len(last.buckets0) > 0
    /\ Len(buckets) = 2 * Len(last.buckets0)
    /\ \E s \in Held :
          /\ buckets[s[1]][s[2]][1] # last.key
          /\ IdxIn(buckets[s[1]][s[2]][1], Len(last.buckets0)) # s[1] - 1

\* C12: no two entries of the table, in one bucket or in two, have equal keys
C12_KeysUnique ==
    \A s \in Held : \A t \in Held :
        buckets[s[1]][s[2]][1] = buckets[t[1]][t[2]][1] => s = t

\* C12 witness: a key was inserted again while the table held two entries
C12_Witness ==
    /\ last.op = "insert"
    /\ last.ret \in Found
    /\ Cardinality(Held) = 2

\* n is 1, 2, 4, ...
RECURSIVE IsPowerOfTwo(_)
IsPowerOfTwo(n) ==
    n = 1 \/ (n > 1 /\ n % 2 = 0 /\ IsPowerOfTwo(n \div 2))

\* C13: the bucket count is 0 or a power of two, and it is 0 only while no
\* insert has been performed: every insert leaves a bucket, and a table that
\* has a bucket keeps one
C13_PowerOfTwoBuckets ==
    /\ [](Len(buckets) = 0 \/ IsPowerOfTwo(Len(buckets)))
    /\ [][/\ last'.op = "insert" => Len(buckets') > 0
          /\ Len(buckets) > 0 => Len(buckets') > 0]_vars

\* C13 witness: the table has grown twice past its first bucket
C13_Witness == Len(buckets) = 4 /\ last.op = "insert"

\* C14: an insert grows the table exactly when, on the counts before it, there
\* is no bucket or items > floor(3n/4); it then goes to 1 bucket from none and
\* to 2n otherwise, whether or not the key is present; otherwise the bucket
\* count stays
C14_GrowthRule ==
    [][\A k \in Keys, v \in Vals :
          InsertStep(k, v) =>
              LET n == Len(buckets)
              IN Len(buckets') =
                    IF n = 0 THEN 1
                    ELSE IF items > (3 * n) \div 4 THEN 2 * n ELSE n]_vars

\* C14 witness: an insert of a key that was present has doubled the bucket
\* count
C14_Witness ==
    /\ last.op = "insert"
    /\ last.ret \in Found
    /\ Len(last.buckets0) > 0
    /\ Len(buckets) = 2 * Len(last.buckets0)

C19_LoadBound ==
    Len(buckets) >= 1 => items <= (3 * Len(buckets)) \div 4 + 1

\* C19 witness: the bound is met with equality after an insert that resized
C19_Witness ==
    /\ last.op = "insert"
    /\ Len(buckets) = 2 * Len(last.buckets0)
    /\ Len(buckets) = 2
    /\ items = 2

\* C20: with at least one bucket, remove(k) of a key that is not present
\* returns "not found" and leaves the item count, the bucket count and every
\* bucket as they were
C20_RemoveAbsentFrame ==
    [][\A k \in Keys :
          (RemoveStep(k) /\ Len(buckets) >= 1 /\ get(k) = None) =>
              /\ last'.ret = None
              /\ items' = items
              /\ Len(buckets') = Len(buckets)
              /\ buckets' = buckets]_vars

\* C20 witness: remove has returned "not found" on a table that holds the
\* other key
C20_Witness ==
    /\ last.op = "remove"
    /\ last.ret = None
    /\ ~panicked
    /\ items = 1
    /\ buckets = last.buckets0

\* a step that is one call of next on the live iterator
IterStep == iter.live /\ iter'.live /\ last'.op = last.op /\ IterNext

\* C15: the bucket count never decreases: only insert changes it, and insert
\* leaves it or increases it; remove (also of the last entry), get,
\* contains_key, len, is_empty, into_iter and next leave it as it was
C15_NeverShrinks ==
    [][/\ Len(buckets') >= Len(buckets)
       /\ last'.op # "insert" => Len(buckets') = Len(buckets)
       /\ IterStep => Len(buckets') = Len(buckets)]_vars

\* C15 witness: remove has taken the last entry out of a table of several
\* buckets, and the buckets are all still there
C15_Witness ==
    /\ last.op = "remove"
    /\ last.ret \in Found
    /\ items = 0
    /\ Len(buckets) > 1
    /\ Len(buckets) = Len(last.buckets0)

\* slot s comes before slot t in bucket order, then in position order
Before(s, t) == s[1] < t[1] \/ (s[1] = t[1] /\ s[2] < t[2])

\* C17: the pairs an iterator has yielded come in ascending bucket index and,
\* within a bucket, in ascending position: of two yielded pairs the earlier
\* one is held in a lower bucket, or in the same bucket at a lower position;
\* empty buckets yield nothing and stop nothing
C17_IterationOrder ==
    iter.live =>
        /\ \A i \in 1..Len(yielded) : \A j \in 1..Len(yielded) :
              i < j =>
                  \E s \in Held : \E t \in Held :
                      /\ buckets[s[1]][s[2]] = yielded[i]
                      /\ buckets[t[1]][t[2]] = yielded[j]
                      /\ Before(s, t)
        /\ yielded = SubSeq(Flatten(buckets), 1, Len(yielded))
        /\ iter.done => yielded = Flatten(buckets)

\* C17 witness: the iterator has yielded a pair, passed an empty bucket and
\* yielded a pair of a later bucket
C17_Witness ==
    /\ iter.live
    /\ Len(yielded) = 2
    /\ \E a \in 1..Len(buckets) : \E b \in 1..Len(buckets) :
          \E c \in 1..Len(buckets) :
              /\ a < b /\ b < c
              /\ buckets[a] = << yielded[1] >>
              /\ Len(buckets[b]) = 0
              /\ buckets[c] = << yielded[2] >>

\* C18: on an unmutated table every advance of the iterator returns, with the
\* cursor within the bucket store; once exhausted the iterator has yielded
\* len() pairs, never more before; an advance after exhaustion reports
\* exhaustion again and yields nothing; on a table without buckets the first
\* advance reports exhaustion
C18_IterationEnds ==
    /\ [](iter.live =>
            /\ ENABLED IterNext
            /\ iter.current_bucket <= Len(buckets)
            /\ Len(yielded) <= len
            /\ iter.done => Len(yielded) = len)
    /\ [][IterStep =>
            /\ iter.done => (iter'.done /\ yielded' = yielded)
            /\ Len(buckets) = 0 => (iter'.done /\ Len(yielded') = 0)
            /\ ~iter'.done => Len(yielded') = Len(yielded) + 1]_vars

\* C18 witness: an iterator over a table of two entries is exhausted
C18_Witness ==
    /\ iter.live /\ iter.done
    /\ len = 2
    /\ Len(yielded) = 2
    /\ iter.current_bucket = Len(buckets)
====
